---- MODULE Spec2Model ----
(***************************************************************************)
(* Chef-GPT (chefgpt.py): a Streamlit script that keeps a chat transcript  *)
(* and a list of saved recipes in per-session memory and flushes each to   *)
(* its own JSON file after every mutation.                                 *)
(*                                                                         *)
(* A character is its code point, a text (Python str) a sequence of        *)
(* characters.  A dict is a sequence of <<key, value>> pairs in insertion  *)
(* order, a list is a sequence.  A file's content is the sequence of the   *)
(* characters in it (json.dump writes ASCII only, one byte each).          *)
(***************************************************************************)
EXTENDS Integers, Sequences, FiniteSets, TLC

\* ---------------------------------------------------------------- bounds
\* Longest transcript and longest recipe list one session builds.
MaxMessages == 6
MaxRecipes == 3
\* The same with two sessions side by side.
SharedMaxMessages == 3
SharedMaxRecipes == 1
\* Longest list the round-trip harness saves.
MaxProbeLen == 2

\* ------------------------------------------------------------ characters
Q == 34        \* "
BS == 92       \* \
NL == 10
CR == 13
TAB == 9
BSP == 8
FF == 12
SP == 32
COMMA == 44
COLON == 58
SLASH == 47
LBRACKET == 91
RBRACKET == 93
LBRACE == 123
RBRACE == 125

\* --------------------------------------------------------------- results
\* A call either returns a value or raises.
Ok(v) == [ok |-> TRUE, val |-> v]
Raise == [ok |-> FALSE, val |-> <<>>]

\* ------------------------------------------------------------ file paths
CHAT_HISTORY_FILE == "chat_history.json"
RECIPES_FILE == "saved_recipes.json"
Paths == {CHAT_HISTORY_FILE, RECIPES_FILE}

\* ------------------------------------------------- json.dump(.., indent=4)
\* A hexadecimal digit, lower case, and the four of \uXXXX.
hex_digit(d) == IF d < 10 THEN 48 + d ELSE 87 + d
hex4(n) ==
  << hex_digit(n \div 4096), hex_digit((n \div 256) % 16),
     hex_digit((n \div 16) % 16), hex_digit(n % 16) >>

\* Faulty variant: every character written raw.
encode_char_raw(c) == <<c>>

\* One character of a str as json writes it with ensure_ascii: the short
\* escapes, printable ASCII as it is, everything else as \uXXXX (a
\* surrogate pair above U+FFFF).
encode_char(c) ==
  IF c = Q THEN <<BS, Q>>
  ELSE IF c = BS THEN <<BS, BS>>
  ELSE IF c = NL THEN <<BS, 110>>
  ELSE IF c = CR THEN <<BS, 114>>
  ELSE IF c = TAB THEN <<BS, 116>>
  ELSE IF c = FF THEN <<BS, 102>>
  ELSE IF c = BSP THEN <<BS, 98>>
  ELSE IF c >= 32 /\ c <= 126 THEN <<c>>
  ELSE IF c < 65536 THEN <<BS, 117>> \o hex4(c)
  ELSE LET v == c - 65536
       IN <<BS, 117>> \o hex4(55296 + (v \div 1024))
          \o <<BS, 117>> \o hex4(56320 + (v % 1024))

\* The characters lo..hi of a str, encoded.
RECURSIVE encode_range(_, _, _)
encode_range(s, lo, hi) ==
  IF lo > hi THEN <<>>
  ELSE IF lo = hi THEN encode_char(s[lo])
  ELSE encode_range(s, lo, (lo + hi) \div 2)
       \o encode_range(s, (lo + hi) \div 2 + 1, hi)

encode_chars(s) == encode_range(s, 1, Len(s))

\* The string literal of a str.
encode_basestring(s) == <<Q>> \o encode_chars(s) \o <<Q>>

\* Newline followed by n spaces, written before an item at depth n/4.
newline_indent(n) == <<NL>> \o [i \in 1..n |-> SP]

\* Concatenation of a few texts.
RECURSIVE flatten(_)
flatten(chunks) ==
  IF chunks = <<>> THEN <<>> ELSE Head(chunks) \o flatten(Tail(chunks))

\* json.dump passes the text to f.write piece by piece; these are the
\* pieces.  Member i of a dict: the separator unless it is the first, the
\* key, the colon, the value.
member_chunks(d, i, level) ==
  (IF i = 1 THEN <<>> ELSE << <<COMMA>> \o newline_indent(level + 4) >>)
  \o << encode_basestring(d[i][1]), <<COLON, SP>>, encode_basestring(d[i][2]) >>

RECURSIVE members_chunks(_, _, _)
members_chunks(d, i, level) ==
  IF i > Len(d) THEN <<>>
  ELSE member_chunks(d, i, level) \o members_chunks(d, i + 1, level)

iterencode_dict(d, level) ==
  IF d = <<>> THEN << <<LBRACE, RBRACE>> >>
  ELSE << <<LBRACE>>, newline_indent(level + 4) >>
       \o members_chunks(d, 1, level)
       \o << newline_indent(level), <<RBRACE>> >>

\* Element i of a non-empty list: the bracket or the separator, then the
\* pieces of the dict.
element_chunks(l, i, level) ==
  << (IF i = 1 THEN <<LBRACKET>> ELSE <<COMMA>>) \o newline_indent(level + 4) >>
  \o iterencode_dict(l[i], level + 4)

\* The text of the elements lo..hi of a list.
RECURSIVE elements_text(_, _, _, _)
elements_text(l, lo, hi, level) ==
  IF lo > hi THEN <<>>
  ELSE IF lo = hi THEN flatten(element_chunks(l, lo, level))
  ELSE elements_text(l, lo, (lo + hi) \div 2, level)
       \o elements_text(l, (lo + hi) \div 2 + 1, hi, level)

\* The whole text json.dump(data, f, indent=4) writes.
json_dump(data) ==
  IF data = <<>> THEN <<LBRACKET, RBRACKET>>
  ELSE elements_text(data, 1, Len(data), 0) \o newline_indent(0)
       \o <<RBRACKET>>

\* The offsets in the text at which the pieces that start at offset from
\* end.
RECURSIVE ends_of(_, _)
ends_of(chunks, from) ==
  IF chunks = <<>> THEN {}
  ELSE {from + Len(Head(chunks))}
       \cup ends_of(Tail(chunks), from + Len(Head(chunks)))

\* The ends of the pieces of the elements lo..hi, the first of which
\* starts at offset from.
RECURSIVE element_ends(_, _, _, _, _)
element_ends(l, lo, hi, level, from) ==
  IF lo > hi THEN {}
  ELSE IF lo = hi THEN ends_of(element_chunks(l, lo, level), from)
  ELSE element_ends(l, lo, (lo + hi) \div 2, level, from)
       \cup element_ends(l, (lo + hi) \div 2 + 1, hi, level,
                         from + Len(elements_text(l, lo, (lo + hi) \div 2,
                                                  level)))

\* The offsets at which the pieces json.dump writes end; after the last
\* element come the newline and the closing bracket.
chunk_ends(data) ==
  IF data = <<>> THEN {2}
  ELSE element_ends(data, 1, Len(data), 0, 0)
       \cup {Len(json_dump(data)) - 1, Len(json_dump(data))}

\* ----------------------------------------------- the file object of open()
\* Line 52 gives a text layer that collects what f.write is given, over a
\* byte buffer, over the file.  The text layer holds CHUNK_SIZE bytes at
\* most; the byte buffer has the block size of the file system.
CHUNK_SIZE == 8192
BUFFER_SIZE == 4096

Least(S) == CHOOSE x \in S : \A y \in S : x <= y
Greatest(S) == CHOOSE x \in S : \A y \in S : x >= y

\* The text layer has passed on the text up to offset s; j is the end of
\* the first piece that brings what it holds to CHUNK_SIZE or beyond, prev
\* the end of the piece before that one.  What it holds is passed on before
\* a piece that would bring it beyond CHUNK_SIZE is taken in, and after a
\* piece that brought it to CHUNK_SIZE or beyond.
flush_at(s, j, prev) == IF j - s > CHUNK_SIZE /\ prev > s THEN prev ELSE j

\* The offset up to which the text layer passes the text on next; over are
\* the ends of pieces at CHUNK_SIZE or more from s.  With none of those the
\* rest is passed on when the file is closed.
next_flush(ends, s, total, over) ==
  IF over = {} THEN total
  ELSE flush_at(s, Least(over),
                Greatest({b \in ends : b < Least(over)} \cup {s}))

RECURSIVE text_flushes(_, _, _)

\* f is the next offset: the length passed on, then the rest.
flushes_to(ends, s, total, f) == <<f - s>> \o text_flushes(ends, f, total)

\* The lengths of what the text layer passes to the byte buffer, in order.
text_flushes(ends, s, total) ==
  IF s >= total THEN <<>>
  ELSE flushes_to(ends, s, total,
                  next_flush(ends, s, total,
                             {b \in ends : b - s >= CHUNK_SIZE}))

\* What the byte buffer holds goes to the file.
drain(pos) == IF pos > 0 THEN <<pos>> ELSE <<>>

\* The lengths of the writes to the file, in order: the byte buffer holds
\* pos bytes and is passed the lengths from flushes[k] on.  What fits is
\* kept; otherwise the buffer is written out and what is passed is written
\* at once when it is above BUFFER_SIZE and kept when not.  The close
\* writes out what is left.
RECURSIVE raw_writes(_, _, _)
raw_writes(flushes, k, pos) ==
  IF k > Len(flushes) THEN drain(pos)
  ELSE IF flushes[k] <= BUFFER_SIZE - pos
    THEN raw_writes(flushes, k + 1, pos + flushes[k])
  ELSE IF flushes[k] > BUFFER_SIZE
    THEN drain(pos) \o <<flushes[k]>> \o raw_writes(flushes, k + 1, 0)
  ELSE drain(pos) \o raw_writes(flushes, k + 1, flushes[k])

\* The lengths of the pieces in which json.dump(data, f, indent=4) and the
\* close of f reach the file.
write_sizes(data) ==
  raw_writes(text_flushes(chunk_ends(data), 0, Len(json_dump(data))), 1, 0)

\* The sum of the first k lengths.
RECURSIVE sum_to(_, _)
sum_to(sizes, k) == IF k = 0 THEN 0 ELSE sizes[k] + sum_to(sizes, k - 1)

\* --------------------------------------------------------------- json.load
\* The grammar covered is the one the files of this program use: an array of
\* objects whose members are strings; whatever is not of that grammar is
\* taken as a text json.load raises a JSONDecodeError on.  json.load itself
\* also returns numbers, literals, nested arrays and a top-level value of any
\* kind; no text that save_json writes, whole or in overlapping pieces of
\* two saves within the bounds used here, is JSON of those kinds.
is_whitespace(c) == c \in {SP, TAB, NL, CR}

\* The character at position i, 0 beyond the end.
at(cs, i) == IF i >= 1 /\ i <= Len(cs) THEN cs[i] ELSE 0

RECURSIVE skip_whitespace(_, _)
skip_whitespace(cs, i) ==
  IF is_whitespace(at(cs, i)) THEN skip_whitespace(cs, i + 1) ELSE i

\* The value of a hexadecimal digit, -1 for any other character.
unhex(c) ==
  IF c >= 48 /\ c <= 57 THEN c - 48
  ELSE IF c >= 97 /\ c <= 102 THEN c - 87
  ELSE IF c >= 65 /\ c <= 70 THEN c - 55
  ELSE -1

\* The number of the four digits at positions i..i+3, -1 if they are not
\* four hexadecimal digits.
unhex4(cs, i) ==
  LET a == unhex(at(cs, i))
      b == unhex(at(cs, i + 1))
      c == unhex(at(cs, i + 2))
      d == unhex(at(cs, i + 3))
  IN IF a < 0 \/ b < 0 \/ c < 0 \/ d < 0 THEN -1
     ELSE 4096 * a + 256 * b + 16 * c + d

\* The character a one-letter escape stands for, -1 if there is none.
unescape(c) ==
  IF c \in {Q, BS, SLASH} THEN c
  ELSE IF c = 110 THEN NL
  ELSE IF c = 114 THEN CR
  ELSE IF c = 116 THEN TAB
  ELSE IF c = 102 THEN FF
  ELSE IF c = 98 THEN BSP
  ELSE -1

\* c in front of the rest of a decoded text; a c below 0 stands for an
\* escape that is none.
cons(c, r) == IF c < 0 \/ ~r.ok THEN Raise ELSE Ok(<<c>> \o r.val)

RECURSIVE decode_from(_, _)

\* The escape \uXXXX at position i: u is its number, v the number of the
\* \uXXXX that follows it, both -1 when there is none.  A high surrogate
\* followed by a low one is one character.
decode_u(cs, i, u, v) ==
  IF u < 0 THEN Raise
  ELSE IF u >= 55296 /\ u <= 56319 /\ v >= 56320 /\ v <= 57343
    THEN cons(65536 + 1024 * (u - 55296) + (v - 56320), decode_from(cs, i + 12))
  ELSE cons(u, decode_from(cs, i + 6))

\* The characters between the quotes of a string literal, from position i,
\* back to the str they denote (strict: no raw control character).
decode_from(cs, i) ==
  IF i > Len(cs) THEN Ok(<<>>)
  ELSE IF cs[i] = Q \/ cs[i] < 32 THEN Raise
  ELSE IF cs[i] # BS THEN cons(cs[i], decode_from(cs, i + 1))
  ELSE IF at(cs, i + 1) # 117
    THEN cons(unescape(at(cs, i + 1)), decode_from(cs, i + 2))
  ELSE decode_u(cs, i, unhex4(cs, i + 2),
                IF at(cs, i + 6) = BS /\ at(cs, i + 7) = 117
                THEN unhex4(cs, i + 8) ELSE -1)

decode_chars(cs) == decode_from(cs, 1)

\* A string literal back to the str it denotes.
parse_string(lex) ==
  IF Len(lex) < 2 \/ lex[1] # Q \/ lex[Len(lex)] # Q THEN Raise
  ELSE decode_chars(SubSeq(lex, 2, Len(lex) - 1))

\* The position of the quote that closes the string literal whose content
\* starts at position i, 0 if there is none.
RECURSIVE string_end(_, _)
string_end(cs, i) ==
  IF i > Len(cs) THEN 0
  ELSE IF cs[i] = Q THEN i
  ELSE IF cs[i] = BS THEN string_end(cs, i + 2)
  ELSE string_end(cs, i + 1)

\* What a scan gives: no parse, or a value and the position after it.
NoParse == [ok |-> FALSE, val |-> <<>>, next |-> 0]
Parsed(val, next) == [ok |-> TRUE, val |-> val, next |-> next]

\* The result r of decoding the literal that ends at position e.
scanned(r, e) == IF r.ok THEN Parsed(r.val, e + 1) ELSE NoParse

\* The string literal from position i to its closing quote at position e.
scan_to(cs, i, e) ==
  IF e = 0 THEN NoParse ELSE scanned(parse_string(SubSeq(cs, i, e)), e)

\* The string literal that starts at position i.
scan_string(cs, i) ==
  IF at(cs, i) # Q THEN NoParse ELSE scan_to(cs, i, string_end(cs, i + 1))

\* x in front of the values of m.
\* The members of an object become a dict: a key stands where it came
\* first and has the value that came last.
has_key(d, key) == \E i \in 1..Len(d) : d[i][1] = key

value_of(d, key) == d[CHOOSE i \in 1..Len(d) : d[i][1] = key][2]

without_key(d, key) ==
  LET other(kv) == kv[1] # key IN SelectSeq(d, other)

\* The dict of the member kv followed by the members of the dict d.
dict_of(kv, d) ==
  IF has_key(d, kv[1])
  THEN << <<kv[1], value_of(d, kv[1])>> >> \o without_key(d, kv[1])
  ELSE <<kv>> \o d

prepend(x, m) == IF m.ok THEN Parsed(dict_of(x, m.val), m.next) ELSE NoParse

RECURSIVE parse_members(_, _)

\* After the member kv, at position e: the closing brace, or a comma and
\* more members.
members_next(cs, kv, e) ==
  IF at(cs, e) = RBRACE THEN Parsed(<<kv>>, e + 1)
  ELSE IF at(cs, e) = COMMA
    THEN prepend(kv, parse_members(cs, skip_whitespace(cs, e + 1)))
  ELSE NoParse

\* After the key, v being the scan of the value.
members_value(cs, key, v) ==
  IF ~v.ok THEN NoParse
  ELSE members_next(cs, <<key, v.val>>, skip_whitespace(cs, v.next))

\* After the key, at position c: the colon and the value.
members_colon(cs, key, c) ==
  IF at(cs, c) # COLON THEN NoParse
  ELSE members_value(cs, key, scan_string(cs, skip_whitespace(cs, c + 1)))

\* k being the scan of the key.
members_key(cs, k) ==
  IF ~k.ok THEN NoParse
  ELSE members_colon(cs, k.val, skip_whitespace(cs, k.next))

\* The members of an object from the key at position i to the closing brace.
parse_members(cs, i) == members_key(cs, scan_string(cs, i))

\* The object whose opening brace is at position i, j being the position of
\* what follows the brace.
object_from(cs, i, j) ==
  IF at(cs, i) # LBRACE THEN NoParse
  ELSE IF at(cs, j) = RBRACE THEN Parsed(<<>>, j + 1)
  ELSE parse_members(cs, j)

parse_object(cs, i) == object_from(cs, i, skip_whitespace(cs, i + 1))

\* The array is closed at position e: only whitespace may follow.
array_end(cs, e, val) ==
  IF skip_whitespace(cs, e + 1) > Len(cs) THEN Ok(val) ELSE Raise

\* x in front of the elements r.
prepend_element(x, r) == IF r.ok THEN Ok(<<x>> \o r.val) ELSE Raise

RECURSIVE parse_elements(_, _)

\* After the element x, at position e: the closing bracket, or a comma and
\* more elements.
elements_next(cs, x, e) ==
  IF at(cs, e) = RBRACKET THEN array_end(cs, e, <<x>>)
  ELSE IF at(cs, e) = COMMA
    THEN prepend_element(x, parse_elements(cs, skip_whitespace(cs, e + 1)))
  ELSE Raise

\* o being the scan of an element.
elements_object(cs, o) ==
  IF ~o.ok THEN Raise
  ELSE elements_next(cs, o.val, skip_whitespace(cs, o.next))

\* The elements of an array from the element at position i on.
parse_elements(cs, i) == elements_object(cs, parse_object(cs, i))

\* The array whose opening bracket is at position i, j being the position
\* of what follows the bracket.
array_from(cs, i, j) ==
  IF at(cs, i) # LBRACKET THEN Raise
  ELSE IF at(cs, j) = RBRACKET THEN array_end(cs, j, <<>>)
  ELSE parse_elements(cs, j)

array_at(cs, i) == array_from(cs, i, skip_whitespace(cs, i + 1))

json_load(content) == array_at(content, skip_whitespace(content, 1))

\* ---------------------------------------------------------------- the files
NoFile == [exists |-> FALSE, content |-> <<>>]
File(content) == [exists |-> TRUE, content |-> content]

\* Line 47, f.read() inside json.load: the file object asks for the file
\* in reads that go on until one of them returns nothing.  The room for the
\* first one is the size the file has when it is opened and one byte more,
\* SMALLCHUNK when it is empty then.
SMALLCHUNK == 8192

initial_bufsize(end) == IF end > 0 THEN end + 1 ELSE SMALLCHUNK

\* By how much the room grows when it is full.
addend(currentsize) ==
  IF currentsize > 65536 THEN currentsize \div 8 ELSE 256 + currentsize

new_buffersize(currentsize) ==
  currentsize + (IF addend(currentsize) < SMALLCHUNK THEN SMALLCHUNK
                 ELSE addend(currentsize))

\* The room when the next read is made with bytes_read bytes there.
room(bufsize, bytes_read) ==
  IF bytes_read >= bufsize THEN new_buffersize(bytes_read) ELSE bufsize

\* How many bytes the next read returns: what the file holds beyond the
\* offset of the handle, as far as there is room.
read_count(content, bufsize, bytes_read) ==
  IF Len(content) <= bytes_read THEN 0
  ELSE IF Len(content) - bytes_read < room(bufsize, bytes_read) - bytes_read
  THEN Len(content) - bytes_read
  ELSE room(bufsize, bytes_read) - bytes_read

\* What is there after the next read.
read_more(content, bufsize, buf) ==
  buf \o SubSeq(content, Len(buf) + 1,
                Len(buf) + read_count(content, bufsize, Len(buf)))

\* All the reads with nothing else running in between.
RECURSIVE readall(_, _, _)
readall(content, bufsize, buf) ==
  IF read_count(content, bufsize, Len(buf)) = 0 THEN buf
  ELSE readall(content, room(bufsize, Len(buf)),
               read_more(content, bufsize, buf))

\* Lines 43-48 with nothing else running in between.
load_json(files, file_path, default) ==
  IF files[file_path].exists
  THEN json_load(readall(files[file_path].content,
                         initial_bufsize(Len(files[file_path].content)), <<>>))
  ELSE Ok(default)

\* Faulty variant: the file is opened without being emptied.
open_rw(files, file_path) ==
  IF files[file_path].exists THEN files
  ELSE [files EXCEPT ![file_path] = File(<<>>)]

\* Line 52, open(file_path, "w"): the file is there and empty from this
\* moment on, whatever it held and whoever else has it open.
open_w(files, file_path) == [files EXCEPT ![file_path] = File(<<>>)]

\* One write to the file through a handle whose offset is offset: the
\* piece replaces what is there, what lies beyond it stays, and a file that
\* another handle has cut short in the meantime is filled up with NUL.
write_at(files, file_path, offset, piece) ==
  [files EXCEPT ![file_path] =
     File([i \in 1..(IF Len(@.content) > offset + Len(piece)
                     THEN Len(@.content) ELSE offset + Len(piece)) |->
             IF i > offset /\ i <= offset + Len(piece) THEN piece[i - offset]
             ELSE IF i <= Len(@.content) THEN @.content[i]
             ELSE 0])]

\* Line 53 and the end of the with block, write number k: the text reaches
\* the file in the pieces whose lengths are sizes, each at the offset where
\* the one before it ended.
write_piece(files, file_path, text, sizes, k) ==
  write_at(files, file_path, sum_to(sizes, k - 1),
           SubSeq(text, sum_to(sizes, k - 1) + 1, sum_to(sizes, k)))

\* The writes from number k on, one after another.
RECURSIVE write_rest(_, _, _, _, _)
write_rest(files, file_path, text, sizes, k) ==
  IF k > Len(sizes) THEN files
  ELSE write_rest(write_piece(files, file_path, text, sizes, k), file_path,
                  text, sizes, k + 1)

\* Lines 50-53 with nothing else running in between.
save_json(files, file_path, data) ==
  write_rest(open_w(files, file_path), file_path, json_dump(data),
             write_sizes(data), 1)

\* ------------------------------------------------------------ Python list
\* Faulty variant: insert at the front.
list_prepend(l, x) == <<x>> \o l

list_append(l, x) == Append(l, x)

\* Faulty variant: l.pop() removes the last element.
list_pop_last(l, idx) == SubSeq(l, 1, Len(l) - 1)

\* l.pop(idx) with a 0-based idx, 0 <= idx < len(l): the list that remains.
list_pop(l, idx) == SubSeq(l, 1, idx) \o SubSeq(l, idx + 2, Len(l))

\* ----------------------------------------------------------------- records
K_role == <<114, 111, 108, 101>>                                  \* role
K_content == <<99, 111, 110, 116, 101, 110, 116>>                 \* content
K_name == <<110, 97, 109, 101>>                                   \* name
K_ingredients == <<105, 110, 103, 114, 101, 100, 105, 101, 110, 116, 115>>
K_instructions == <<105, 110, 115, 116, 114, 117, 99, 116, 105, 111, 110, 115>>
V_user == <<117, 115, 101, 114>>                                  \* user
V_bot == <<98, 111, 116>>                                         \* bot

\* {"role": role, "content": content}
ChatMessage(role, content) == << <<K_role, role>>, <<K_content, content>> >>

\* {"name": .., "ingredients": .., "instructions": ..}
new_recipe(recipe_name, ingredients, instructions) ==
  << <<K_name, recipe_name>>, <<K_ingredients, ingredients>>,
     <<K_instructions, instructions>> >>

\* ------------------------------------------------------------------ inputs
\* What a user types on the Home page: nothing, or  a,"
UserInputs == { <<>>, <<97, COMMA, Q>> }

\* What the hosted model may answer to the recipe prompt ( R<newline>  or
\* e-acute<tab>\ ) and to the nutrition prompt ( N" ).
RecipeTexts == { <<82, NL>>, <<233, TAB, BS>> }
NutritionTexts == { <<78, Q>> }

\* A chain.run call returns a text or raises (provider failure).
RecipeRuns == {Ok(t) : t \in RecipeTexts} \cup {Raise}
NutritionRuns == {Ok(t) : t \in NutritionTexts} \cup {Raise}

\* What a user types in the three fields of the recipe form:  P  or  D" ,
\* r,\  and  c<newline> .
NameInputs == { <<>>, <<80>>, <<68, Q>> }
IngredientsInputs == { <<>>, <<114, COMMA, BS>> }
InstructionsInputs == { <<>>, <<99, NL>> }

Sessions == {1, 2}

\* ------------------------------------------------------------------- state
VARIABLES
  fs,             \* path -> NoFile or File(content): the two JSON files
  session_state,  \* session -> st.session_state, a mapping whose keys are
                  \* among "messages" and "saved_recipes"
  run,            \* session -> where the script thread of the session is
                  \* and the locals it holds there
  last,           \* the most recent script run of the session that is
                  \* followed: its widget event and inputs, what it found,
                  \* the chain.run calls it made, the st.success or st.error
                  \* it showed, whether it is over
  writer,         \* path -> the session whose save_json closed it last, that
                  \* is, returned last (0: none)
  probe           \* the round-trip harness of the persistence helpers

vars == <<fs, session_state, run, last, writer, probe>>

NoAlert == [kind |-> "none", text |-> ""]
Success(text) == [kind |-> "success", text |-> text]
Error(text) == [kind |-> "error", text |-> text]

\* A script thread between two runs.
IdleRun == [pc |-> "idle", path |-> CHAT_HISTORY_FILE, written |-> 0,
            bufsize |-> 0, buf |-> <<>>,
            alert |-> NoAlert, user_input |-> <<>>, recipe |-> <<>>]

\* The harness before it is used.
Idle == [pc |-> "idle", path |-> CHAT_HISTORY_FILE, data |-> <<>>,
         default |-> <<>>, result |-> Raise]

\* The widgets of a page exist once a script run got past lines 56-60.
Ready(s) == DOMAIN session_state[s] = {"messages", "saved_recipes"}

messages(s) == session_state[s]["messages"]
saved_recipes(s) == session_state[s]["saved_recipes"]

\* The collection a session flushes to a path.
Collection(s, file_path) ==
  IF file_path = CHAT_HISTORY_FILE THEN messages(s) ELSE saved_recipes(s)

\* ------------------------------------------------ lines 56-60: session state
\* The key that lines 56-60 set next, "messages" as long as it is
\* missing, and the file it is loaded from.
missing_key(ss) ==
  IF "messages" \notin DOMAIN ss THEN "messages" ELSE "saved_recipes"

file_of(key) == IF key = "messages" THEN CHAT_HISTORY_FILE ELSE RECIPES_FILE

\* Lines 57 and 60 with loaded what load_json returned or raised: a
\* JSONDecodeError ends the run with the key still missing.
init_key(ss, key, loaded) ==
  IF loaded.ok THEN ss @@ (key :> loaded.val) ELSE ss

\* ----------------------------------------------------- lines 82-102: Home
Call(chain, var, value, out) ==
  [chain |-> chain, var |-> var, value |-> value, out |-> out]

\* Faulty variant: the user message and the recipe are appended as soon as
\* the recipe is there.
on_recipe_eager(msgs, user_input, recipe) ==
  list_append(list_append(msgs, ChatMessage(V_user, user_input)),
              ChatMessage(V_bot, recipe))

\* Lines 89-91: the transcript when recipe_chain.run has returned; the
\* recipe is shown and kept in a local.
on_recipe(msgs, user_input, recipe) == msgs

\* Lines 99-101: the transcript when nutrition_chain.run has returned.
on_nutrition(msgs, user_input, recipe, nutrition_info) ==
  LET m1 == list_append(msgs, ChatMessage(V_user, user_input))
      m2 == list_append(m1, ChatMessage(V_bot, recipe))
  IN list_append(m2, ChatMessage(V_bot, nutrition_info))

\* --------------------------------------------- lines 107-124: recipe form
\* Faulty variant: only the name is looked at.
form_filled_name_only(recipe_name, ingredients, instructions) ==
  recipe_name # <<>>

\* Python truthiness of the three fields: a str is true when non-empty.
form_filled(recipe_name, ingredients, instructions) ==
  recipe_name # <<>> /\ ingredients # <<>> /\ instructions # <<>>

\* save: save_json is called on the list; alert: what is shown, the success
\* after the save has returned.
RecipeForm(recipes, recipe_name, ingredients, instructions) ==
  IF form_filled(recipe_name, ingredients, instructions)
  THEN [saved_recipes |-> list_append(recipes,
                            new_recipe(recipe_name, ingredients, instructions)),
        save |-> TRUE, alert |-> Success("Recipe saved successfully!")]
  ELSE [saved_recipes |-> recipes, save |-> FALSE,
        alert |-> Error("Please fill in all fields.")]

\* ------------------------------------------ lines 128-140: saved recipes
\* The loop over enumerate(saved_recipes) from position idx on, with the
\* button of position clicked pressed: the pop, the save and the rerun that
\* ends the script run.
RECURSIVE RecipeList(_, _, _)
RecipeList(recipes, idx, clicked) ==
  IF idx >= Len(recipes)
  THEN [saved_recipes |-> recipes, save |-> FALSE, alert |-> NoAlert]
  ELSE IF idx = clicked
  THEN [saved_recipes |-> list_pop(recipes, idx), save |-> TRUE,
        alert |-> Success("Recipe deleted.")]
  ELSE RecipeList(recipes, idx + 1, clicked)

\* ---------------------------------------------- lines 142-154: Saved Chats
\* Faulty variant: the transcript is saved as it is, not emptied.
ClearChatHistory_kept(msgs) ==
  [messages |-> msgs, save |-> TRUE,
   alert |-> Success("Chat history cleared.")]

ClearChatHistory(msgs) ==
  [messages |-> <<>>, save |-> TRUE,
   alert |-> Success("Chat history cleared.")]

\* ----------------------------------------------------------------- actions
\* Every session has a script thread of its own.  A step of a thread is a
\* piece of a script run that reads or writes a file at one moment at most,
\* or ends where the thread waits for the hosted model; between two steps of
\* one thread the threads of the other sessions take theirs.  What a thread
\* does to the memory of its session no other thread sees.  The actions say
\* what a step does to the session state, the thread and the files; the
\* record of the run (last) is added where they are put together below.

\* Lines 50-52 reached with the collection of file_path changed: the file is
\* opened, which empties it; alert is what the page shows once the save has
\* returned.
OpenForSave(s, file_path, alert) ==
  /\ fs' = open_w(fs, file_path)
  /\ run' = [run EXCEPT ![s] = [IdleRun EXCEPT !.pc = "write",
                                               !.path = file_path,
                                               !.alert = alert]]

\* A run of a session whose state is not complete yet reaches load_json for
\* the missing key (lines 56-60, 45-46): without a file the key is set to the
\* default; a file is opened, and the run has the room for its first read.
Start(s) ==
  /\ run[s].pc = "idle"
  /\ ~Ready(s)
  /\ IF fs[file_of(missing_key(session_state[s]))].exists
     THEN /\ run' = [run EXCEPT ![s] =
                       [IdleRun EXCEPT
                          !.pc = "read",
                          !.path = file_of(missing_key(session_state[s])),
                          !.bufsize = initial_bufsize(
                             Len(fs[file_of(missing_key(session_state[s]))].content))]]
          /\ UNCHANGED session_state
     ELSE /\ session_state' =
               [session_state EXCEPT ![s] = init_key(@, missing_key(@), Ok(<<>>))]
          /\ UNCHANGED run
  /\ UNCHANGED <<fs, writer, probe>>

\* The next read of the file (line 47).  A read that returns nothing is the
\* last: what was read is parsed, the key is set (lines 57, 60) or the
\* JSONDecodeError ends the run.
Read(s) ==
  /\ run[s].pc = "read"
  /\ IF read_count(fs[run[s].path].content, run[s].bufsize, Len(run[s].buf)) > 0
     THEN /\ run' = [run EXCEPT
                       ![s].buf = read_more(fs[run[s].path].content,
                                            run[s].bufsize, @),
                       ![s].bufsize = room(@, Len(run[s].buf))]
          /\ UNCHANGED session_state
     ELSE /\ session_state' =
               [session_state EXCEPT
                  ![s] = init_key(@, missing_key(@), json_load(run[s].buf))]
          /\ run' = [run EXCEPT ![s] = IdleRun]
  /\ UNCHANGED <<fs, writer, probe>>

\* A run that only shows a page (sidebar navigation, no widget event on the
\* page); lines 56-60 find both keys.
Render(s) ==
  /\ run[s].pc = "idle"
  /\ Ready(s)
  /\ UNCHANGED <<fs, session_state, run, writer, probe>>

\* A run on Home with user_input in the text input, up to the call of
\* recipe_chain.run (line 89); with an empty input the run is over (line 87).
Home(s, user_input) ==
  /\ run[s].pc = "idle"
  /\ Ready(s)
  /\ run' = IF user_input = <<>> THEN run
            ELSE [run EXCEPT ![s] = [IdleRun EXCEPT !.pc = "recipe_chain",
                                                    !.user_input = user_input]]
  /\ UNCHANGED <<fs, session_state, writer, probe>>

\* recipe_chain.run returns or raises; lines 89-94, up to the call of
\* nutrition_chain.run.
RecipeReturns(s, recipe_run) ==
  /\ run[s].pc = "recipe_chain"
  /\ IF recipe_run.ok
     THEN /\ session_state' =
               [session_state EXCEPT ![s]["messages"] =
                  on_recipe(@, run[s].user_input, recipe_run.val)]
          /\ run' = [run EXCEPT ![s].pc = "nutrition_chain",
                                ![s].recipe = recipe_run.val]
     ELSE /\ run' = [run EXCEPT ![s] = IdleRun]
          /\ UNCHANGED session_state
  /\ UNCHANGED <<fs, writer, probe>>

\* nutrition_chain.run returns or raises; lines 94-102, up to the open of
\* save_json.
NutritionReturns(s, nutrition_run) ==
  /\ run[s].pc = "nutrition_chain"
  /\ IF nutrition_run.ok
     THEN /\ session_state' =
               [session_state EXCEPT ![s]["messages"] =
                  on_nutrition(@, run[s].user_input, run[s].recipe,
                               nutrition_run.val)]
          /\ OpenForSave(s, CHAT_HISTORY_FILE, NoAlert)
     ELSE /\ run' = [run EXCEPT ![s] = IdleRun]
          /\ UNCHANGED <<fs, session_state>>
  /\ UNCHANGED <<writer, probe>>

\* A run on Recipes with the form's Save Recipe button pressed, up to the
\* open of save_json.
SaveRecipe(s, recipe_name, ingredients, instructions) ==
  /\ run[s].pc = "idle"
  /\ Ready(s)
  /\ LET f == RecipeForm(saved_recipes(s), recipe_name, ingredients,
                         instructions)
     IN IF f.save
        THEN /\ session_state' =
                  [session_state EXCEPT ![s]["saved_recipes"] = f.saved_recipes]
             /\ OpenForSave(s, RECIPES_FILE, f.alert)
        ELSE UNCHANGED <<fs, session_state, run>>
  /\ UNCHANGED <<writer, probe>>

\* A run on Recipes with the button "Delete Recipe idx+1" pressed, up to the
\* open of save_json.
DeleteRecipe(s, idx) ==
  /\ run[s].pc = "idle"
  /\ Ready(s)
  /\ idx \in 0..(Len(saved_recipes(s)) - 1)
  /\ LET d == RecipeList(saved_recipes(s), 0, idx)
     IN /\ session_state' =
             [session_state EXCEPT ![s]["saved_recipes"] = d.saved_recipes]
        /\ OpenForSave(s, RECIPES_FILE, d.alert)
  /\ UNCHANGED <<writer, probe>>

\* A run on Saved Chats with Clear Chat History pressed, up to the open of
\* save_json; the button is there only when the transcript is not empty
\* (line 144).
ClearChat(s) ==
  /\ run[s].pc = "idle"
  /\ Ready(s)
  /\ messages(s) # <<>>
  /\ LET c == ClearChatHistory(messages(s))
     IN /\ session_state' = [session_state EXCEPT ![s]["messages"] = c.messages]
        /\ OpenForSave(s, CHAT_HISTORY_FILE, c.alert)
  /\ UNCHANGED <<writer, probe>>

\* The next write of save_json to the file (line 53, the last one when the
\* with block is left); written is the number of writes this save has made.
\* After the last one the file is still open.
Write(s) ==
  /\ run[s].pc = "write"
  /\ fs' = write_piece(fs, run[s].path, json_dump(Collection(s, run[s].path)),
                       write_sizes(Collection(s, run[s].path)),
                       run[s].written + 1)
  /\ run' = IF run[s].written + 1 < Len(write_sizes(Collection(s, run[s].path)))
            THEN [run EXCEPT ![s].written = @ + 1]
            ELSE [run EXCEPT ![s].pc = "close"]
  /\ UNCHANGED <<session_state, writer, probe>>

\* The file is closed (end of the with block, lines 52-53): save_json
\* returns and the run goes on to its end, the success is shown.
Close(s) ==
  /\ run[s].pc = "close"
  /\ run' = [run EXCEPT ![s] = IdleRun]
  /\ writer' = [writer EXCEPT ![run[s].path] = s]
  /\ UNCHANGED <<fs, session_state, probe>>

\* ------------------------------------------------------------ initial state
\* What an earlier process may have left in the files: nothing, a list it
\* saved, or a write cut short.
PriorTranscript ==
  << ChatMessage(V_user, <<97, COMMA, Q>>), ChatMessage(V_bot, <<82, NL>>),
     ChatMessage(V_bot, <<78, Q>>) >>
PriorRecipes == << new_recipe(<<80>>, <<114, COMMA, BS>>, <<99, NL>>) >>
Truncated == <<LBRACKET>> \o newline_indent(4) \o <<LBRACE>>

\* What a run found when it began: the collection of its event and the file
\* of that collection.
NoPre == [list |-> <<>>, file |-> [exists |-> FALSE, content |-> <<>>]]
Pre(s, file_path) == [list |-> Collection(s, file_path), file |-> fs[file_path]]

\* pre: what the run found.  undo: the run deletes the recipe that the run
\* before it, a successful submission, appended; base is then what that
\* submission found.  done: the run is over.
Run(s, event, texts, idx, fault, calls, alert, pre, base, undo, done) ==
  [s |-> s, event |-> event, texts |-> texts, idx |-> idx, fault |-> fault,
   calls |-> calls, alert |-> alert, pre |-> pre, base |-> base,
   undo |-> undo, done |-> done]

NoRun == Run(0, "none", <<>>, -1, FALSE, <<>>, NoAlert, NoPre, NoPre, FALSE, TRUE)

Init ==
  /\ fs \in [Paths -> {NoFile, File(Truncated), File(json_dump(PriorTranscript)),
                       File(json_dump(PriorRecipes))}]
  /\ fs[CHAT_HISTORY_FILE] # File(json_dump(PriorRecipes))
  /\ fs[RECIPES_FILE] # File(json_dump(PriorTranscript))
  /\ session_state = [s \in Sessions |-> <<>>]
  /\ run = [s \in Sessions |-> IdleRun]
  /\ last = NoRun
  /\ writer = [p \in Paths |-> 0]
  /\ probe = Idle

\* ------------------------------------------------------ one browser session
\* Session s on its own, every run of it recorded in last.
TracedStart(s) ==
  /\ Start(s)
  /\ last' = Run(s, "start", <<>>, -1, FALSE, <<>>, NoAlert, NoPre, NoPre,
                 FALSE, run'[s].pc = "idle")

TracedRead(s) ==
  /\ Read(s)
  /\ last' = IF run'[s].pc = "idle"
             THEN [last EXCEPT !.fault = ~json_load(run[s].buf).ok,
                               !.done = TRUE]
             ELSE last

TracedRender(s) ==
  /\ Render(s)
  /\ last' = Run(s, "render", <<>>, -1, FALSE, <<>>, NoAlert, NoPre, NoPre,
                 FALSE, TRUE)

TracedHome(s) ==
  \E user_input \in UserInputs :
    /\ Ready(s)
    /\ user_input # <<>> => Len(messages(s)) + 3 <= MaxMessages
    /\ Home(s, user_input)
    /\ last' = Run(s, "turn", <<user_input>>, -1, FALSE, <<>>, NoAlert,
                   Pre(s, CHAT_HISTORY_FILE), NoPre, FALSE, user_input = <<>>)

TracedRecipeReturns(s) ==
  \E recipe_run \in RecipeRuns :
    /\ RecipeReturns(s, recipe_run)
    /\ last' = [last EXCEPT
                  !.calls = Append(@, Call("recipe_chain", "ingredients",
                                           run[s].user_input, recipe_run)),
                  !.fault = ~recipe_run.ok,
                  !.done = ~recipe_run.ok]

TracedNutritionReturns(s) ==
  \E nutrition_run \in NutritionRuns :
    /\ NutritionReturns(s, nutrition_run)
    /\ last' = [last EXCEPT
                  !.calls = Append(@, Call("nutrition_chain", "recipe",
                                           run[s].recipe, nutrition_run)),
                  !.fault = ~nutrition_run.ok,
                  !.done = ~nutrition_run.ok]

TracedSaveRecipe(s) ==
  \E recipe_name \in NameInputs, ingredients \in IngredientsInputs,
     instructions \in InstructionsInputs :
    /\ Ready(s)
    /\ Len(saved_recipes(s)) + 1 <= MaxRecipes
    /\ SaveRecipe(s, recipe_name, ingredients, instructions)
    /\ LET f == RecipeForm(saved_recipes(s), recipe_name, ingredients,
                           instructions)
       IN last' = Run(s, "submit", <<recipe_name, ingredients, instructions>>,
                      -1, FALSE, <<>>, IF f.save THEN NoAlert ELSE f.alert,
                      Pre(s, RECIPES_FILE), NoPre, FALSE, ~f.save)

TracedDeleteRecipe(s) ==
  \E idx \in 0..(MaxRecipes + 1) :
    /\ DeleteRecipe(s, idx)
    /\ LET undo == /\ last.event = "submit"
                    /\ last.alert.kind = "success"
                    /\ idx = Len(last.pre.list)
       IN last' = Run(s, "delete", <<>>, idx, FALSE, <<>>, NoAlert,
                      Pre(s, RECIPES_FILE),
                      IF undo THEN last.pre ELSE NoPre, undo, FALSE)

TracedClearChat(s) ==
  /\ ClearChat(s)
  /\ last' = Run(s, "clear", <<>>, -1, FALSE, <<>>, NoAlert,
                 Pre(s, CHAT_HISTORY_FILE), NoPre, FALSE, FALSE)

TracedWrite(s) == Write(s) /\ UNCHANGED last

TracedClose(s) ==
  /\ Close(s)
  /\ last' = [last EXCEPT !.alert = run[s].alert, !.done = TRUE]

Next ==
  \/ TracedStart(1)
  \/ TracedRead(1)
  \/ TracedRender(1)
  \/ TracedHome(1)
  \/ TracedRecipeReturns(1)
  \/ TracedNutritionReturns(1)
  \/ TracedSaveRecipe(1)
  \/ TracedDeleteRecipe(1)
  \/ TracedClearChat(1)
  \/ TracedWrite(1)
  \/ TracedClose(1)

Spec == Init /\ [][Next]_vars

\* ------------------------------- two browser sessions sharing the two files
InitShared == Init /\ \A p \in Paths : fs[p] = NoFile

SharedStart(s) == Start(s) /\ UNCHANGED last

SharedRead(s) == Read(s) /\ UNCHANGED last

SharedHome(s) ==
  \E user_input \in UserInputs :
    /\ Ready(s)
    /\ user_input # <<>>
    /\ Len(messages(s)) + 3 <= SharedMaxMessages
    /\ Home(s, user_input)
    /\ UNCHANGED last

SharedRecipeReturns(s) ==
  \E recipe_run \in RecipeRuns : RecipeReturns(s, recipe_run) /\ UNCHANGED last

SharedNutritionReturns(s) ==
  \E nutrition_run \in NutritionRuns :
    NutritionReturns(s, nutrition_run) /\ UNCHANGED last

SharedSaveRecipe(s) ==
  \E recipe_name \in NameInputs, ingredients \in IngredientsInputs,
     instructions \in InstructionsInputs :
    /\ Ready(s)
    /\ Len(saved_recipes(s)) + 1 <= SharedMaxRecipes
    /\ SaveRecipe(s, recipe_name, ingredients, instructions)
    /\ UNCHANGED last

SharedDeleteRecipe(s) ==
  \E idx \in 0..(SharedMaxRecipes + 1) : DeleteRecipe(s, idx) /\ UNCHANGED last

SharedClearChat(s) == ClearChat(s) /\ UNCHANGED last

SharedWrite(s) == Write(s) /\ UNCHANGED last

SharedClose(s) == Close(s) /\ UNCHANGED last

NextShared ==
  \E s \in Sessions :
    \/ SharedStart(s)
    \/ SharedRead(s)
    \/ SharedHome(s)
    \/ SharedRecipeReturns(s)
    \/ SharedNutritionReturns(s)
    \/ SharedSaveRecipe(s)
    \/ SharedDeleteRecipe(s)
    \/ SharedClearChat(s)
    \/ SharedWrite(s)
    \/ SharedClose(s)

SpecShared == InitShared /\ [][NextShared]_vars

\* --------------------------------------- the persistence helpers on their own
\* save_json followed by load_json in one thread, on a path that may or may
\* not hold a file already, for lists of records of both kinds.  The texts
\* have quotes, backslashes, control characters, DEL, characters beyond
\* ASCII and beyond U+FFFF; they have no surrogate code points, which no
\* text typed into the page or returned by the hosted model holds.
ProbeRecords ==
  { ChatMessage(V_user, <<97, COMMA, Q>>),
    ChatMessage(V_bot, <<BS, 110, TAB, 233>>),
    new_recipe(<<80, 128512>>, <<114, COMMA, BS>>, <<99, NL, CR>>),
    new_recipe(<<68, Q, 127>>, <<SLASH, BSP, FF>>, <<8364, 31, BS, 117>>) }

RECURSIVE ListsUpTo(_)
ListsUpTo(n) ==
  IF n = 0 THEN {<<>>}
  ELSE LET shorter == ListsUpTo(n - 1)
       IN shorter \cup {Append(l, r) : l \in {x \in shorter : Len(x) = n - 1},
                                        r \in ProbeRecords}

ProbeDefaults == { <<>>, << ChatMessage(V_bot, <<100>>) >> }

\* What the path holds before the harness touches it.
PriorOf(file_path) ==
  IF file_path = CHAT_HISTORY_FILE THEN PriorTranscript ELSE PriorRecipes

InitRoundTrip ==
  /\ fs \in [Paths -> {NoFile, File(Truncated), File(json_dump(PriorTranscript)),
                       File(json_dump(PriorRecipes))}]
  /\ \A p \in Paths : fs[p] \in {NoFile, File(Truncated), File(json_dump(PriorOf(p)))}
  /\ fs[RECIPES_FILE] = NoFile \/ fs[CHAT_HISTORY_FILE] = NoFile
  /\ session_state = [s \in Sessions |-> <<>>]
  /\ run = [s \in Sessions |-> IdleRun]
  /\ last = NoRun
  /\ writer = [p \in Paths |-> 0]
  /\ probe \in [pc : {"start"}, path : Paths, data : ListsUpTo(MaxProbeLen),
                default : ProbeDefaults, result : {Raise}]

ProbeLoad ==
  /\ probe.pc \in {"start", "saved"}
  /\ probe' = [probe EXCEPT
                 !.pc = IF probe.pc = "start" THEN "loaded_before"
                        ELSE "loaded_after",
                 !.result = load_json(fs, probe.path, probe.default)]
  /\ UNCHANGED <<fs, session_state, run, last, writer>>

ProbeSave ==
  /\ probe.pc \in {"start", "loaded_before"}
  /\ fs' = save_json(fs, probe.path, probe.data)
  /\ probe' = [probe EXCEPT !.pc = "saved"]
  /\ UNCHANGED <<session_state, run, last, writer>>

NextRoundTrip == ProbeLoad \/ ProbeSave

SpecRoundTrip == InitRoundTrip /\ [][NextRoundTrip]_vars

\* ------------------------------------------------------------------ claims
\* d[key] of a dict (lines 130-132, 146).
dict_get(d, key) == d[CHOOSE i \in 1..Len(d) : d[i][1] = key][2]

\* The list a file holds, as load_json reads it back.
Holds(files, file_path, data) ==
  /\ files[file_path].exists
  /\ load_json(files, file_path, <<>>) = Ok(data)

IsPrefix(a, b) == Len(a) <= Len(b) /\ SubSeq(b, 1, Len(a)) = a

\* The run recorded in last is over and was a ...
Over(event) == last.event = event /\ last.done

ChatMutated ==
  \/ Over("turn") /\ last.texts[1] # <<>> /\ ~last.fault
  \/ Over("clear")
RecipesMutated ==
  \/ Over("submit") /\ last.alert.kind = "success"
  \/ Over("delete")

\* C1: in one session, when a mutating operation has completed (a
\* successful Home turn, a valid form submission, a recipe delete, a
\* clear-chat), the collection it mutated equals the content of its JSON
\* file.
C1_MemoryMatchesFile ==
  /\ ChatMutated => Holds(fs, CHAT_HISTORY_FILE, messages(last.s))
  /\ RecipesMutated => Holds(fs, RECIPES_FILE, saved_recipes(last.s))

C1_Witness ==
  /\ Over("delete")
  /\ Len(last.pre.list) = 3
  /\ last.pre.file.exists
  /\ Len(fs[RECIPES_FILE].content) < Len(last.pre.file.content)
  /\ Len(messages(1)) = 6
  /\ Holds(fs, RECIPES_FILE, saved_recipes(1))
  /\ Holds(fs, CHAT_HISTORY_FILE, messages(1))

\* C2: a form submission with an empty field leaves saved_recipes and its
\* file as they were and shows an error; a submission with three non-empty
\* fields appends exactly one record, holding the submitted values verbatim,
\* at the end, and shows a success.
C2_FormValidation ==
  Over("submit") =>
    LET t == last.texts
        old == last.pre.list
        new == saved_recipes(last.s)
    IN IF t[1] = <<>> \/ t[2] = <<>> \/ t[3] = <<>>
       THEN /\ new = old
            /\ fs[RECIPES_FILE] = last.pre.file
            /\ last.alert.kind = "error"
       ELSE /\ Len(new) = Len(old) + 1
            /\ SubSeq(new, 1, Len(old)) = old
            /\ Len(new[Len(new)]) = 3
            /\ dict_get(new[Len(new)], K_name) = t[1]
            /\ dict_get(new[Len(new)], K_ingredients) = t[2]
            /\ dict_get(new[Len(new)], K_instructions) = t[3]
            /\ last.alert.kind = "success"

C2_Witness ==
  /\ Over("submit")
  /\ last.alert.kind = "success"
  /\ last.texts = << <<68, Q>>, <<114, COMMA, BS>>, <<99, NL>> >>
  /\ Len(last.pre.list) = 2
  /\ dict_get(saved_recipes(1)[3], K_name) = <<68, Q>>

\* C3: a successful Home turn with a non-empty input x appends exactly three
\* entries after the old transcript: user/x, bot/recipe text of the first
\* completion, bot/nutrition text of the second completion, which was called
\* on that recipe text.  An empty input makes no call and appends nothing.
C3_TurnAppendsThree ==
  (Over("turn") /\ ~last.fault) =>
    LET x == last.texts[1]
        c == last.calls
        old == last.pre.list
        new == messages(last.s)
    IN IF x = <<>>
       THEN c = <<>> /\ new = old /\ fs[CHAT_HISTORY_FILE] = last.pre.file
       ELSE /\ Len(c) = 2
            /\ c[1].chain = "recipe_chain" /\ c[1].value = x
            /\ c[2].chain = "nutrition_chain" /\ c[2].value = c[1].out.val
            /\ Len(new) = Len(old) + 3
            /\ SubSeq(new, 1, Len(old)) = old
            /\ \A i \in 1..3 : Len(new[Len(old) + i]) = 2
            /\ dict_get(new[Len(old) + 1], K_role) = V_user
            /\ dict_get(new[Len(old) + 1], K_content) = x
            /\ dict_get(new[Len(old) + 2], K_role) = V_bot
            /\ dict_get(new[Len(old) + 2], K_content) = c[1].out.val
            /\ dict_get(new[Len(old) + 3], K_role) = V_bot
            /\ dict_get(new[Len(old) + 3], K_content) = c[2].out.val

C3_Witness ==
  /\ Over("turn") /\ ~last.fault /\ last.texts[1] # <<>>
  /\ Len(last.pre.list) = 3
  /\ Len(last.calls) = 2
  /\ last.calls[1].out.val = <<233, TAB, BS>>
  /\ dict_get(messages(1)[5], K_content) = <<233, TAB, BS>>

\* C4: a Home turn in which the recipe call or the nutrition call fails
\* leaves the transcript and chat_history.json exactly as they were.
C4_FailedTurnAppendsNothing ==
  (Over("turn") /\ last.fault) =>
    /\ messages(last.s) = last.pre.list
    /\ fs[CHAT_HISTORY_FILE] = last.pre.file

C4_Witness ==
  /\ Over("turn") /\ last.fault
  /\ Len(last.calls) = 2
  /\ last.calls[1].out.ok /\ ~last.calls[2].out.ok
  /\ Len(messages(1)) = 3

\* C5: deleting position i of a list of n recipes leaves n-1 recipes, the
\* others in their order; one record is removed, the one at the clicked
\* position, and the result is what the file holds.
C5_DeleteByPosition ==
  Over("delete") =>
    LET i == last.idx
        old == last.pre.list
        new == saved_recipes(last.s)
    IN /\ i >= 0 /\ i < Len(old)
       /\ Len(new) = Len(old) - 1
       /\ \A j \in 1..Len(new) : new[j] = old[IF j <= i THEN j ELSE j + 1]
       /\ Holds(fs, RECIPES_FILE, new)

C5_Witness ==
  /\ Over("delete")
  /\ Len(last.pre.list) = 3
  /\ last.idx = 1
  /\ Len(saved_recipes(1)) = 2
  /\ saved_recipes(1)[1] # saved_recipes(1)[2]

\* C6: a clear leaves a transcript of length 0 whatever its length was, and
\* the empty sequence is what chat_history.json holds.
C6_ClearEmpties ==
  Over("clear") =>
    /\ Len(messages(last.s)) = 0
    /\ Holds(fs, CHAT_HISTORY_FILE, <<>>)
    /\ fs[CHAT_HISTORY_FILE].content = <<LBRACKET, RBRACKET>>

C6_Witness ==
  /\ Over("clear")
  /\ Len(last.pre.list) = 6
  /\ messages(1) = <<>>

\* C7 as stated: a valid submission followed by the delete of the last
\* position leaves saved_recipes and saved_recipes.json identical to what
\* they were before the submission.
C7_SaveDeleteRestoresFile ==
  (Over("delete") /\ last.undo) =>
    /\ saved_recipes(last.s) = last.base.list
    /\ fs[RECIPES_FILE] = last.base.file

\* C7 as amended: a valid submission followed by the delete of the last
\* position leaves saved_recipes identical to what it was before the
\* submission, and saved_recipes.json holding exactly that list.
C7_SaveDeleteRestoresList ==
  (Over("delete") /\ last.undo) =>
    /\ saved_recipes(last.s) = last.base.list
    /\ Holds(fs, RECIPES_FILE, last.base.list)

C7_Witness ==
  /\ Over("delete") /\ last.undo
  /\ last.idx = 2
  /\ Len(last.base.list) = 2
  /\ last.base.list[1] # last.base.list[2]
  /\ saved_recipes(1) = last.base.list

\* C8: save_json of a list of records followed by load_json, with any
\* default, returns that list; load_json returns the default when the path
\* holds no file, and what the file holds (or a decode error) when it does.
C8_RoundTrip ==
  /\ probe.pc = "loaded_after" => probe.result = Ok(probe.data)
  /\ probe.pc = "loaded_before" =>
       IF fs[probe.path].exists
       THEN probe.result \in {Raise, Ok(PriorOf(probe.path))}
       ELSE probe.result = Ok(probe.default)

C8_Witness ==
  /\ probe.pc = "loaded_after"
  /\ Len(probe.data) = 2
  /\ probe.default # <<>>
  /\ probe.data[1][2] = <<K_content, <<BS, 110, TAB, 233>>>>
  /\ probe.data[2][1] = <<K_name, <<68, Q, 127>>>>
  /\ probe.result = Ok(probe.data)

\* C9: with two sessions on the same files and no run under way, a file
\* that was saved equals the in-memory collection of the session whose save
\* ended last.
C9_LastWriterWins ==
  (\A s \in Sessions : run[s].pc = "idle") =>
    \A p \in Paths :
      writer[p] # 0 => Holds(fs, p, Collection(writer[p], p))

\* C10: every step leaves a session's transcript as it was, extends it at
\* the end, or replaces it by the empty sequence.
C10_AppendOnly ==
  [][ \A s \in Sessions :
        ("messages" \in DOMAIN session_state[s]) =>
          LET old == session_state[s]["messages"]
              new == session_state'[s]["messages"]
          IN /\ "messages" \in DOMAIN session_state'[s]
             /\ (new = old \/ IsPrefix(old, new) \/ new = <<>>) ]_vars

C10_Witness ==
  /\ Over("turn") /\ ~last.fault
  /\ Len(last.pre.list) = 3
  /\ Len(messages(1)) = 6
  /\ messages(1)[2] # messages(1)[5]

====
